---- MODULE Spec2Model ----
(***************************************************************************)
(* Atlas Jenga Game (atlas_game_main.py): the serial weight sampler, the   *)
(* two threshold detectors, the three-phase game loop, the score and the   *)
(* leaderboard insert, as one state machine.                               *)
(*                                                                         *)
(* Time is counted in clock units, ClockHz units to the second, so a       *)
(* time_remaining of t units stands for t / ClockHz seconds.  Weights are  *)
(* integer mass units.  A serial line is a sequence of tokens.             *)
(***************************************************************************)
EXTENDS Integers, Sequences, FiniteSets, TLC

\* ---------------------------------------------------------------- constants
GAME_DURATION == 120
BLOCKS_TO_WIN == 10
WEIGHT_THRESHOLD == 5
COLLAPSE_THRESHOLD == 30

\* ------------------------------------------------------------------- bounds
\* clock units per second
ClockHz == 20
\* lines the serial receive buffer holds at most
MaxBuf == 1
\* events one pygame.event.get() returns at most
MaxEvents == 1
\* characters typed into team_name at most
MaxNameLen == 1
\* clock units the clock may run past one full game
MaxOvertime == 2

\* ------------------------------------------------------------ input domains
Weights == {0, 5, 6, 36}

Label == [t |-> "label", v |-> 0]
Num(w) == [t |-> "num", v |-> w]
Junk == [t |-> "junk", v |-> 0]

\* what the load cell prints: a bare number, a labelled number, or garbage
SensorLines ==
    {<<Num(w)>> : w \in Weights} \cup {<<Label, Num(6)>>, <<Junk>>}

KeyReturn == [type |-> "KEYDOWN", key |-> "K_RETURN", unicode |-> <<>>]
KeyBackspace == [type |-> "KEYDOWN", key |-> "K_BACKSPACE", unicode |-> <<>>]
KeyChar == [type |-> "KEYDOWN", key |-> "K_a", unicode |-> <<"a">>]
Quit == [type |-> "QUIT", key |-> "", unicode |-> <<>>]
MouseDown == [type |-> "MOUSEBUTTONDOWN", key |-> "", unicode |-> <<>>]
MouseMotion == [type |-> "MOUSEMOTION", key |-> "", unicode |-> <<>>]

InputEvents == {KeyReturn, KeyBackspace, KeyChar, Quit, MouseDown, MouseMotion}

\* the clock moves by half a game, or a unit more, per frame at the coarsest
HalfGame == (GAME_DURATION * ClockHz) \div 2
TimeSteps == {0, HalfGame, HalfGame + 1}
MaxNow == GAME_DURATION * ClockHz + MaxOvertime

SeqsUpTo(S, n) == UNION {[1..k -> S] : k \in 0..n}

\* -------------------------------------------------------------------- state
VARIABLES
    state,            \* GameState: "PREGAME", "PLAYING", "POSTGAME"
    blocks_removed,
    start_time,
    time_remaining,
    team_name,
    tower_collapsed,
    last_weight,      \* SerialHandler.last_weight
    serial_ok,        \* SerialHandler.serial is not None
    leaderboard,      \* rows of the leaderboard table, in insertion order
    running,          \* run()'s local
    events,           \* the rest of the list handle_events() iterates
    pc,               \* where run() is
    first_read,       \* what detect_tower_collapse read, while update() goes on
    now,              \* time.time()
    buf,              \* complete lines waiting in the serial receive buffer
    partial,          \* bytes of an unterminated line wait behind them
    port_lost         \* the device is gone: the port raises SerialException

vars == <<state, blocks_removed, start_time, time_remaining, team_name,
          tower_collapsed, last_weight, serial_ok, leaderboard, running,
          events, pc, first_read, now, buf, partial,
          port_lost>>

game == <<state, blocks_removed, start_time, time_remaining, team_name,
          tower_collapsed>>

\* ---------------------------------------------------------- pure operators
Abs(x) == IF x < 0 THEN -x ELSE x

\* Python's int(): truncation toward zero of a / b, b > 0
IntTrunc(a, b) == IF a >= 0 THEN a \div b ELSE -((-a) \div b)

\* index of the first label token of a line, 0 when it has none
LabelAt(line) ==
    IF \E i \in 1..Len(line) : line[i] = Label
    THEN CHOOSE i \in 1..Len(line) :
             line[i] = Label /\ \A j \in 1..(i - 1) : line[j] # Label
    ELSE 0

\* data.split("Load_cell output val:")[1]: from the label to the next label
AfterLabel(line) ==
    LET i == LabelAt(line)
        rest == SubSeq(line, i + 1, Len(line))
        j == LabelAt(rest)
    IN IF j = 0 THEN rest ELSE SubSeq(rest, 1, j - 1)

\* float(text): a number when the text is exactly one number
ToFloat(text) ==
    IF Len(text) = 1 /\ text[1].t = "num"
    THEN [ok |-> TRUE, val |-> text[1].v]
    ELSE [ok |-> FALSE, val |-> 0]

ParseLine(line) ==
    IF LabelAt(line) # 0 THEN ToFloat(AfterLabel(line)) ELSE ToFloat(line)

\* read_weight falling back to 0.0, not to last_weight, when it has no value
read_weight_falls_back_to_zero(ok, b, lw, fault) ==
    IF ~ok THEN [val |-> 0, buf |-> b, got |-> FALSE, parsed |-> FALSE]
    ELSE IF fault \/ b = <<>>
    THEN [val |-> 0, buf |-> b, got |-> FALSE, parsed |-> FALSE]
    ELSE LET p == ParseLine(Head(b))
         IN [val |-> IF p.ok THEN p.val ELSE 0,
             buf |-> Tail(b), got |-> TRUE, parsed |-> p.ok]

\* SerialHandler.read_weight: the value returned, the buffer left, and what
\* was taken off the link.  fault: the port raises SerialException.
read_weight(ok, b, lw, fault) ==
    IF ~ok THEN [val |-> 0, buf |-> b, got |-> FALSE, parsed |-> FALSE]
    ELSE IF fault \/ b = <<>>
    THEN [val |-> lw, buf |-> b, got |-> FALSE, parsed |-> FALSE]
    ELSE LET p == ParseLine(Head(b))
         IN [val |-> IF p.ok THEN p.val ELSE lw,
             buf |-> Tail(b), got |-> TRUE, parsed |-> p.ok]

\* readline() has no timeout: with only an unterminated line waiting it does
\* not return until the rest of the line arrives
Blocked == serial_ok /\ ~port_lost /\ buf = <<>> /\ partial

collapse_test(current_weight, lw) == current_weight - lw > COLLAPSE_THRESHOLD

\* detect_block_removal's comparison turned round
removal_test_inverted(current_weight, lw) ==
    Abs(current_weight - lw) <= WEIGHT_THRESHOLD

removal_test(current_weight, lw) == Abs(current_weight - lw) > WEIGHT_THRESHOLD

\* AtlasJengaGame.calculate_score, time_remaining in clock units
calculate_score(tr, blocks) ==
    LET stability_bonus == IF blocks >= BLOCKS_TO_WIN THEN 100 ELSE 0
    IN IntTrunc(tr * 10 + (stability_bonus + blocks * 100) * ClockHz, ClockHz)

Score(name, blocks, tr) ==
    [team_name |-> name, blocks_removed |-> blocks, time_remaining |-> tr,
     total_score |-> calculate_score(tr, blocks)]

NoRead == [got |-> FALSE, parsed |-> FALSE, val |-> 0]

\* --------------------------------------------------------------------- Init
\* after AtlasJengaGame.__init__: the port opened or not, nothing received yet
Init ==
    /\ state = "PREGAME"
    /\ blocks_removed = 0
    /\ start_time = 0
    /\ time_remaining = GAME_DURATION * ClockHz
    /\ team_name = <<>>
    /\ tower_collapsed = FALSE
    /\ last_weight = 0
    /\ serial_ok \in BOOLEAN
    /\ leaderboard = <<>>
    /\ running = TRUE
    /\ events = <<>>
    /\ pc = "poll"
    /\ first_read = NoRead
    /\ now = 0
    /\ buf = <<>>
    /\ partial = FALSE
    /\ port_lost = FALSE

\* ------------------------------------------------------------- environment
\* run() is about to call read_weight(). Nothing else in the program looks at
\* the port, so whatever the link does between two reads is placed here, just
\* before the read that is the first to see it.
AboutToRead ==
    \/ pc = "update" /\ state = "PLAYING"
    \/ pc = "removal"
    \/ /\ pc = "events" /\ events # <<>>
       /\ Head(events) = MouseDown
       /\ state = "PREGAME"

\* the load cell's controller prints one more line, or ends the one begun
SensorSend ==
    /\ serial_ok /\ ~port_lost
    /\ AboutToRead
    /\ Len(buf) < MaxBuf
    /\ \E line \in SensorLines : buf' = Append(buf, line)
    /\ partial' = FALSE
    /\ UNCHANGED <<game, last_weight, serial_ok, leaderboard, running, events,
                   pc, first_read, now, port_lost>>

\* the first bytes of a line arrive and its newline does not, yet; the read
\* meets them once the whole lines ahead of them are taken
SensorStall ==
    /\ serial_ok /\ ~port_lost
    /\ AboutToRead
    /\ buf = <<>> /\ ~partial
    /\ partial' = TRUE
    /\ UNCHANGED <<game, last_weight, serial_ok, leaderboard, running, events,
                   pc, first_read, now, buf, port_lost>>

\* the device is unplugged: what it had sent is gone with it
SensorUnplug ==
    /\ serial_ok /\ ~port_lost
    /\ AboutToRead
    /\ port_lost' = TRUE
    /\ buf' = <<>>
    /\ partial' = FALSE
    /\ UNCHANGED <<game, last_weight, serial_ok, leaderboard, running, events,
                   pc, first_read, now>>

\* ------------------------------------------------------------ handle_events
\* pygame.event.get(): the events queued since the last frame
Typed(evs) == Cardinality({i \in 1..Len(evs) : evs[i] = KeyChar})

\* a click queued behind a submit arrives on the pregame screen
ClickAfterSubmit(evs) ==
    \E i, j \in 1..Len(evs) :
        i < j /\ evs[i] = KeyReturn /\ evs[j] = MouseDown

\* games: how many games the visitors play before they stop clicking to start
PollEvents(games) ==
    /\ pc = "poll"
    /\ \E evs \in SeqsUpTo(InputEvents, MaxEvents) :
         /\ state = "POSTGAME" => Len(team_name) + Typed(evs) <= MaxNameLen
         /\ (state = "PREGAME" /\ Len(leaderboard) >= games)
              => \A i \in 1..Len(evs) : evs[i] # MouseDown
         /\ (state = "POSTGAME" /\ Len(leaderboard) + 1 >= games)
              => ~ClickAfterSubmit(evs)
         /\ events' = evs
    /\ pc' = "events"
    /\ UNCHANGED <<game, last_weight, serial_ok, leaderboard, running,
                   first_read, now, buf, partial, port_lost>>

\* a session of one game: nobody starts another once a score is on the board
Poll == PollEvents(1)

\* a session that goes on to one more game after the first score
PollRematch == PollEvents(2)

\* reset_game() with the line that zeroes blocks_removed left out
reset_game_keeps_blocks ==
    /\ ~Blocked
    /\ LET r == read_weight(serial_ok, buf, last_weight, port_lost)
       IN
       /\ blocks_removed' = blocks_removed
       /\ start_time' = now
       /\ time_remaining' = GAME_DURATION * ClockHz
       /\ team_name' = <<>>
       /\ tower_collapsed' = FALSE
       /\ last_weight' = r.val
       /\ buf' = r.buf

\* reset_game(), entered with state already PLAYING
reset_game ==
    /\ ~Blocked
    /\ LET r == read_weight(serial_ok, buf, last_weight, port_lost)
       IN
       /\ blocks_removed' = 0
       /\ start_time' = now
       /\ time_remaining' = GAME_DURATION * ClockHz
       /\ team_name' = <<>>
       /\ tower_collapsed' = FALSE
       /\ last_weight' = r.val
       /\ buf' = r.buf

\* add_score whose transaction never commits the row
add_score_drops_row(score, committed) == leaderboard' = leaderboard

\* LeaderboardManager.add_score: the row is committed, or sqlite3 raises
add_score(score, committed) ==
    leaderboard' = IF committed THEN Append(leaderboard, score) ELSE leaderboard

OnQuit ==
    /\ Head(events).type = "QUIT"
    /\ running' = FALSE
    /\ events' = <<>>
    /\ pc' = "update"
    /\ UNCHANGED <<game, last_weight, serial_ok, leaderboard, first_read,
                   now, buf, partial, port_lost>>

OnSubmit ==
    /\ Head(events) = KeyReturn
    /\ state = "POSTGAME"
    /\ \E committed \in BOOLEAN :
         /\ add_score(Score(team_name, blocks_removed, time_remaining), committed)
         /\ IF committed
            THEN /\ state' = "PREGAME"
                 /\ events' = Tail(events)
                 /\ pc' = pc
            ELSE /\ state' = state
                 /\ events' = events
                 /\ pc' = "crashed"
    /\ UNCHANGED <<blocks_removed, start_time, time_remaining, team_name,
                   tower_collapsed, last_weight, serial_ok, running,
                   first_read, now, buf, partial, port_lost>>

OnBackspace ==
    /\ Head(events) = KeyBackspace
    /\ state = "POSTGAME"
    /\ team_name' = SubSeq(team_name, 1, Len(team_name) - 1)
    /\ events' = Tail(events)
    /\ UNCHANGED <<state, blocks_removed, start_time, time_remaining,
                   tower_collapsed, last_weight, serial_ok, leaderboard,
                   running, pc, first_read, now, buf, partial, port_lost>>

\* the character branch without its test of the phase
OnChar_in_any_phase ==
    /\ Head(events).type = "KEYDOWN"
    /\ Head(events).key \notin {"K_RETURN", "K_BACKSPACE"}
    /\ team_name' = team_name \o Head(events).unicode
    /\ events' = Tail(events)
    /\ UNCHANGED <<state, blocks_removed, start_time, time_remaining,
                   tower_collapsed, last_weight, serial_ok, leaderboard,
                   running, pc, first_read, now, buf, partial, port_lost>>

OnChar ==
    /\ Head(events).type = "KEYDOWN"
    /\ Head(events).key \notin {"K_RETURN", "K_BACKSPACE"}
    /\ state = "POSTGAME"
    /\ team_name' = team_name \o Head(events).unicode
    /\ events' = Tail(events)
    /\ UNCHANGED <<state, blocks_removed, start_time, time_remaining,
                   tower_collapsed, last_weight, serial_ok, leaderboard,
                   running, pc, first_read, now, buf, partial, port_lost>>

\* the start branch without its test of the phase
OnStart_in_any_phase ==
    /\ Head(events).type = "MOUSEBUTTONDOWN"
    /\ state' = "PLAYING"
    /\ reset_game
    /\ events' = Tail(events)
    /\ UNCHANGED <<serial_ok, leaderboard, running, pc, first_read, now,
                   partial, port_lost>>

OnStart ==
    /\ Head(events).type = "MOUSEBUTTONDOWN"
    /\ state = "PREGAME"
    /\ state' = "PLAYING"
    /\ reset_game
    /\ events' = Tail(events)
    /\ UNCHANGED <<serial_ok, leaderboard, running, pc, first_read, now,
                   partial, port_lost>>

\* every event no branch of handle_events acts on
OnIgnored ==
    /\ \/ Head(events).type = "KEYDOWN" /\ state # "POSTGAME"
       \/ Head(events).type = "MOUSEBUTTONDOWN" /\ state # "PREGAME"
       \/ Head(events).type \notin {"QUIT", "KEYDOWN", "MOUSEBUTTONDOWN"}
    /\ events' = Tail(events)
    /\ UNCHANGED <<game, last_weight, serial_ok, leaderboard, running, pc,
                   first_read, now, buf, partial, port_lost>>

HandleEvent ==
    /\ pc = "events"
    /\ events # <<>>
    /\ \/ OnQuit
       \/ OnSubmit
       \/ OnBackspace
       \/ OnChar
       \/ OnStart
       \/ OnIgnored

\* the event list is exhausted: handle_events returns True
EventsDone ==
    /\ pc = "events"
    /\ events = <<>>
    /\ running' = TRUE
    /\ pc' = "update"
    /\ UNCHANGED <<game, last_weight, serial_ok, leaderboard, events,
                   first_read, now, buf, partial, port_lost>>

\* ------------------------------------------------------------------- update
\* update() up to the return of detect_tower_collapse
UpdateCollapse ==
    /\ pc = "update"
    /\ IF state # "PLAYING"
       THEN /\ pc' = "draw"
            /\ UNCHANGED <<game, last_weight, first_read, buf>>
       ELSE /\ ~Blocked
            /\ LET r == read_weight(serial_ok, buf, last_weight, port_lost)
               IN
               /\ time_remaining' = GAME_DURATION * ClockHz - (now - start_time)
               /\ buf' = r.buf
               /\ IF collapse_test(r.val, last_weight)
                  THEN /\ last_weight' = r.val
                       /\ state' = "POSTGAME"
                       /\ pc' = "draw"
                       /\ first_read' = NoRead
                  ELSE /\ last_weight' = last_weight
                       /\ state' = state
                       /\ pc' = "removal"
                       /\ first_read' =
                            [got |-> r.got, parsed |-> r.parsed, val |-> r.val]
               /\ UNCHANGED <<blocks_removed, start_time, team_name,
                              tower_collapsed>>
    /\ UNCHANGED <<serial_ok, leaderboard, running, events, now, partial,
                   port_lost>>

\* the win test written > instead of >=
AfterRemoval_off_by_one(blocks, tr) ==
    IF blocks > BLOCKS_TO_WIN \/ tr <= 0 THEN "POSTGAME" ELSE "PLAYING"

\* the phase update() leaves after the block count and the timeout test
AfterRemoval(blocks, tr) ==
    IF blocks >= BLOCKS_TO_WIN \/ tr <= 0 THEN "POSTGAME" ELSE "PLAYING"

\* update() from detect_block_removal to its end
UpdateRemoval ==
    /\ pc = "removal"
    /\ ~Blocked
    /\ LET r == read_weight(serial_ok, buf, last_weight, port_lost)
           hit == removal_test(r.val, last_weight)
           blocks == IF hit THEN blocks_removed + 1 ELSE blocks_removed
       IN /\ buf' = r.buf
          /\ last_weight' = IF hit THEN r.val ELSE last_weight
          /\ blocks_removed' = blocks
          /\ state' = IF hit
                      THEN AfterRemoval(blocks, time_remaining)
                      ELSE IF time_remaining <= 0 THEN "POSTGAME" ELSE state
    /\ pc' = "draw"
    /\ first_read' = NoRead
    /\ UNCHANGED <<start_time, time_remaining, team_name, tower_collapsed,
                   serial_ok, leaderboard, running, events, now, partial,
                   port_lost>>

\* --------------------------------------------------------------------- draw
\* draw(): the pregame and postgame screens query the leaderboard, which
\* answers or raises
Draw ==
    /\ pc = "draw"
    /\ \E answered \in BOOLEAN :
         pc' = IF state = "PLAYING" \/ answered THEN "tick" ELSE "crashed"
    /\ UNCHANGED <<game, last_weight, serial_ok, leaderboard, running, events,
                   first_read, now, buf, partial, port_lost>>

\* clock.tick(FPS), then the loop test; pygame.quit() when running is False
Tick ==
    /\ pc = "tick"
    /\ \E d \in TimeSteps : now + d <= MaxNow /\ now' = now + d
    /\ pc' = IF running THEN "poll" ELSE "exited"
    /\ UNCHANGED <<game, last_weight, serial_ok, leaderboard, running, events,
                   first_read, buf, partial, port_lost>>

Loop == Poll \/ HandleEvent \/ EventsDone \/ UpdateCollapse \/ UpdateRemoval
        \/ Draw \/ Tick

Next == Loop \/ SensorSend \/ SensorStall \/ SensorUnplug

Spec == Init /\ [][Next]_vars

\* the interpreter keeps executing run(); the sensor and the players owe nothing
FairSpec == Spec /\ WF_vars(Loop)

\* ------------------------------------------------------------------ no port
\* serial.Serial() raised in SerialHandler.__init__: serial is None, and there
\* is no link for the load cell to act on
NoPortInit == Init /\ ~serial_ok

\* a frame that takes a clock unit or more
ClockAdvances == Tick /\ now' > now

\* run() keeps executing, and clock.tick(FPS) makes every frame take time: a
\* frame shorter than a clock unit is not repeated for ever
NoPortSpec ==
    NoPortInit /\ [][Loop]_vars /\ WF_vars(Loop) /\ SF_vars(ClockAdvances)

\* ------------------------------------------------------------------ backlog
\* the pregame screen has been up for a while with the port open: the load
\* cell has printed lines, one more than the link takes on during a frame,
\* and nothing has read them
BacklogInit ==
    /\ state = "PREGAME"
    /\ blocks_removed = 0
    /\ start_time = 0
    /\ time_remaining = GAME_DURATION * ClockHz
    /\ team_name = <<>>
    /\ tower_collapsed = FALSE
    /\ last_weight = 0
    /\ serial_ok = TRUE
    /\ leaderboard = <<>>
    /\ running = TRUE
    /\ events = <<>>
    /\ pc = "poll"
    /\ first_read = NoRead
    /\ now = 0
    /\ buf \in SeqsUpTo(SensorLines, MaxBuf + 1)
    /\ partial = FALSE
    /\ port_lost = FALSE

BacklogSpec == BacklogInit /\ [][Next]_vars

\* ------------------------------------------------------------------ rematch
\* games that have been played and submitted: won with the clock untouched,
\* timed out one unit late, collapsed at half time
FinishedGames ==
    {[blocks |-> BLOCKS_TO_WIN, tr |-> GAME_DURATION * ClockHz, lw |-> 36,
      at |-> 0],
     [blocks |-> 1, tr |-> -1, lw |-> 6, at |-> 2 * HalfGame + 1],
     [blocks |-> 2, tr |-> GAME_DURATION * ClockHz - HalfGame, lw |-> 36,
      at |-> HalfGame]}

\* the pregame screen after such a game, its score on the board
AfterGame(g) ==
    /\ state = "PREGAME"
    /\ blocks_removed = g.blocks
    /\ start_time = 0
    /\ time_remaining = g.tr
    /\ team_name = <<"a">>
    /\ tower_collapsed = FALSE
    /\ last_weight = g.lw
    /\ serial_ok = TRUE
    /\ leaderboard = <<Score(<<"a">>, g.blocks, g.tr)>>
    /\ running = TRUE
    /\ events = <<>>
    /\ pc = "poll"
    /\ first_read = NoRead
    /\ now = g.at
    /\ buf = <<>>
    /\ partial = FALSE
    /\ port_lost = FALSE

RematchInit == \E g \in FinishedGames : AfterGame(g)

RematchNext ==
    PollRematch \/ HandleEvent \/ EventsDone \/ UpdateCollapse
    \/ UpdateRemoval \/ Draw \/ Tick \/ SensorSend \/ SensorStall
    \/ SensorUnplug

RematchSpec == RematchInit /\ [][RematchNext]_vars

\* every finished game the rematch starts from is a state of a first session
NotYetWon == ~ \E g \in FinishedGames : g.blocks = BLOCKS_TO_WIN /\ AfterGame(g)
NotYetTimedOut == ~ \E g \in FinishedGames : g.tr < 0 /\ AfterGame(g)
NotYetCollapsed == ~ \E g \in FinishedGames : g.blocks = 2 /\ AfterGame(g)

\* ------------------------------------------------------- reading the steps
\* the step is update()'s first half, taken while playing
CollapseStep == pc = "update" /\ pc' # pc /\ state = "PLAYING"

\* the step is update()'s second half
RemovalStep == pc = "removal" /\ pc' # pc

\* the step's read_weight takes a line off the link and parses it
ReadsSample == buf # <<>> /\ buf' = Tail(buf) /\ ParseLine(Head(buf)).ok

\* that sample's difference from the previous weight the detectors compare with
Delta == ParseLine(Head(buf)).val - last_weight

Medium(d) == Abs(d) > WEIGHT_THRESHOLD /\ d <= COLLAPSE_THRESHOLD

\* ----------------------------------------------------------------------- C1
\* C1: while playing, a sample more than COLLAPSE_THRESHOLD above the previous
\* weight ends the game as a collapse and never raises blocks_removed,
\* whichever of update()'s two reads takes it.
C1_CollapseNeverCountsAsRemoval ==
    [][((CollapseStep \/ RemovalStep) /\ ReadsSample
            /\ Delta > COLLAPSE_THRESHOLD)
        => (blocks_removed' = blocks_removed /\ state' = "POSTGAME")]_vars

\* ----------------------------------------------------------------------- C2
\* C2: the step that detects a collapse leaves PostGame with tower_collapsed
\* true, and a step that ends the game by win or timeout leaves it false.
C2_CollapseSetsFlag ==
    [][/\ (CollapseStep /\ state' = "POSTGAME") => tower_collapsed' = TRUE
       /\ (RemovalStep /\ state' = "POSTGAME") => tower_collapsed' = FALSE]_vars

\* ----------------------------------------------------------------------- C3
\* the specified score: the remaining time clamped at zero, floored
ClampedScore(tr, blocks) ==
    ((IF tr > 0 THEN tr ELSE 0) * 10) \div ClockHz
    + (IF blocks >= BLOCKS_TO_WIN THEN 100 ELSE 0) + blocks * 100

\* C3: while playing and after the game, calculate_score() is the clamped
\* score, and so is the total_score of every row submitted; after a timeout
\* it is blocks_removed * 100, never less.
C3_ScoreClampsTime ==
    /\ state \in {"PLAYING", "POSTGAME"}
         => calculate_score(time_remaining, blocks_removed)
              = ClampedScore(time_remaining, blocks_removed)
    /\ \A i \in 1..Len(leaderboard) :
         leaderboard[i].total_score
           = ClampedScore(leaderboard[i].time_remaining,
                          leaderboard[i].blocks_removed)
    /\ (state = "POSTGAME" /\ time_remaining <= 0
          /\ blocks_removed < BLOCKS_TO_WIN)
         => calculate_score(time_remaining, blocks_removed)
              = blocks_removed * 100

\* ----------------------------------------------------------------------- C4
\* every line waiting on the link carries the weight w
OnlySamplesOf(w) ==
    \A i \in 1..Len(buf) : ParseLine(buf[i]).ok /\ ParseLine(buf[i]).val = w

\* the tower's weight has stepped from the baseline w0 to w1 during play
StepPending(w0, w1) ==
    /\ state = "PLAYING"
    /\ last_weight = w0
    /\ buf # <<>>
    /\ OnlySamplesOf(w1)

\* the step was reported (the baseline moved to w1), or the case is over: the
\* game or the process ended, another sample came, or the link stalled or
\* was lost
StepSettled(w1) ==
    \/ last_weight = w1
    \/ state # "PLAYING"
    \/ pc \in {"crashed", "exited"}
    \/ ~OnlySamplesOf(w1)
    \/ Blocked
    \/ port_lost

FirstReadMedium ==
    first_read.got /\ first_read.parsed
    /\ Medium(first_read.val - last_weight)

\* C5: a tick that reads a sample whose difference from the previous weight
\* is above WEIGHT_THRESHOLD in size and at most COLLAPSE_THRESHOLD raises
\* blocks_removed by exactly 1.
C5_MediumDeltaCountsABlock ==
    [][(RemovalStep /\ (FirstReadMedium \/ (ReadsSample /\ Medium(Delta))))
        => blocks_removed' = blocks_removed + 1]_vars

\* ----------------------------------------------------------------------- C6
\* C6: a sample within WEIGHT_THRESHOLD of the previous weight emits nothing,
\* whether the previous weight is the baseline or the sample read just before
\* it; so a run of samples each within the threshold of its predecessor never
\* raises blocks_removed or moves the baseline.
C6_NoiseEmitsNothing ==
    [][/\ ((CollapseStep \/ RemovalStep) /\ ReadsSample
             /\ Abs(Delta) <= WEIGHT_THRESHOLD)
          => (blocks_removed' = blocks_removed /\ last_weight' = last_weight)
       /\ (RemovalStep /\ ReadsSample /\ first_read.parsed
             /\ Abs(first_read.val - last_weight) <= WEIGHT_THRESHOLD
             /\ Abs(ParseLine(Head(buf)).val - first_read.val)
                  <= WEIGHT_THRESHOLD)
          => (blocks_removed' = blocks_removed /\ last_weight' = last_weight)]_vars

\* ----------------------------------------------------------------------- C7
\* C7: every step from PreGame to Playing leaves blocks_removed 0,
\* tower_collapsed false, time_remaining GAME_DURATION and team_name empty,
\* whatever the game before left in them.
C7_StartResetsRun ==
    [][(state = "PREGAME" /\ state' = "PLAYING")
        => /\ blocks_removed' = 0
           /\ tower_collapsed' = FALSE
           /\ time_remaining' = GAME_DURATION * ClockHz
           /\ team_name' = <<>>]_vars

\* a game has just been started after a won game whose team had a name
C7_Witness ==
    /\ state = "PLAYING" /\ pc = "events"
    /\ blocks_removed = 0 /\ team_name = <<>>
    /\ Len(leaderboard) = 1
    /\ leaderboard[1].blocks_removed = BLOCKS_TO_WIN
    /\ leaderboard[1].team_name # <<>>

\* ----------------------------------------------------------------------- C8
\* C8: blocks_removed stays within 0..BLOCKS_TO_WIN, a game still playing has
\* fewer than BLOCKS_TO_WIN blocks, and a game that reached BLOCKS_TO_WIN is
\* over with tower_collapsed false.
C8_BlocksBounded ==
    /\ blocks_removed \in 0..BLOCKS_TO_WIN
    /\ state = "PLAYING" => blocks_removed < BLOCKS_TO_WIN
    /\ blocks_removed = BLOCKS_TO_WIN => tower_collapsed = FALSE

\* the tick that removed the winning block has just ended the game
C8_Witness ==
    state = "POSTGAME" /\ blocks_removed = BLOCKS_TO_WIN /\ pc = "draw"

\* ----------------------------------------------------------------------- C9
\* the step handles a RETURN key: it goes on to the next event, or raises
SubmitStep ==
    /\ pc = "events" /\ events # <<>> /\ Head(events) = KeyReturn
    /\ (events' = Tail(events) \/ pc' = "crashed")

\* the Score handle_events builds from the run state as it is
SubmittedRow ==
    [team_name |-> team_name, blocks_removed |-> blocks_removed,
     time_remaining |-> time_remaining,
     total_score |-> calculate_score(time_remaining, blocks_removed)]

\* the leaderboard grows exactly on the steps from PostGame to PreGame
InsertsMatchReturns ==
    /\ leaderboard' # leaderboard
         => (state = "POSTGAME" /\ state' = "PREGAME"
             /\ Len(leaderboard') = Len(leaderboard) + 1)
    /\ (state = "POSTGAME" /\ state' = "PREGAME")
         => Len(leaderboard') = Len(leaderboard) + 1
    /\ (SubmitStep /\ state # "POSTGAME") => leaderboard' = leaderboard

ClickStep ==
    /\ pc = "events" /\ events # <<>> /\ Head(events) = MouseDown
    /\ events' = Tail(events)

\* C10: the phase starts as PreGame and changes only from PreGame to Playing
\* on a click, from Playing to PostGame inside update(), and from PostGame to
\* PreGame on RETURN; a click in Playing or PostGame changes neither the phase
\* nor the run state.
C10_PhaseCycle ==
    /\ state = "PREGAME"
    /\ [][/\ state' # state
               => \/ state = "PREGAME" /\ state' = "PLAYING" /\ ClickStep
                  \/ state = "PLAYING" /\ state' = "POSTGAME"
                       /\ (CollapseStep \/ RemovalStep)
                  \/ state = "POSTGAME" /\ state' = "PREGAME" /\ SubmitStep
          /\ (ClickStep /\ state # "PREGAME")
               => UNCHANGED <<game, last_weight, buf>>]_vars

\* a click is about to be handled in PostGame, after a game that counted blocks
C10_Witness ==
    /\ state = "POSTGAME" /\ pc = "events"
    /\ events # <<>> /\ Head(events) = MouseDown
    /\ blocks_removed > 0

\* ---------------------------------------------------------------------- C11
\* C11: every serial read returns within its tick, whatever the link holds:
\* run() never stays inside update(), nor inside the start of a game, for good.
C11_EveryTickCompletes ==
    \A p \in {"events", "update", "removal"} : (pc = p) ~> (pc # p)

\* ---------------------------------------------------------------------- C12
\* the clock of the model runs as far as this game's deadline
DeadlineInReach == start_time + GAME_DURATION * ClockHz <= MaxNow

\* C12: with serial None no game ever counts a block or collapses:
\* blocks_removed is 0 all through Playing, Playing is left only by update()'s
\* timeout test with time_remaining <= 0, and every started game whose loop
\* is not quit does end in PostGame.
C12_NoPortOnlyTimeout ==
    /\ [](state = "PLAYING" => (blocks_removed = 0 /\ last_weight = 0))
    /\ [][(state = "PLAYING" /\ state' # "PLAYING")
            => /\ RemovalStep
               /\ state' = "POSTGAME"
               /\ time_remaining' <= 0
               /\ blocks_removed' = 0]_vars
    /\ (state = "PLAYING" /\ DeadlineInReach)
         ~> (state = "POSTGAME" \/ pc = "exited")

\* a game played without a port has timed out with no block counted
C12_Witness ==
    /\ ~serial_ok
    /\ state = "POSTGAME" /\ pc = "draw"
    /\ time_remaining <= 0 /\ blocks_removed = 0

\* ---------------------------------------------------------------------- C13
\* the step's read_weight gets no value: nothing is pending, or the line it
\* takes parses neither as a labelled value nor as a number
ReadFails == buf = <<>> \/ ~ParseLine(Head(buf)).ok

\* C13: a read that finds nothing pending or takes an unparsable line never
\* makes an event: the step of update() that did it leaves blocks_removed and
\* the baseline as they were, and the phase too, unless it is the timeout
\* that ends the game; this whatever the baseline was before.
C13_FailedReadEmitsNothing ==
    [][/\ (CollapseStep /\ ReadFails)
            => /\ state' = state
               /\ last_weight' = last_weight
               /\ blocks_removed' = blocks_removed
       /\ (RemovalStep /\ ReadFails)
            => /\ last_weight' = last_weight
               /\ blocks_removed' = blocks_removed
               /\ \/ state' = state
                  \/ state' = "POSTGAME" /\ time_remaining <= 0]_vars

\* detect_tower_collapse has just taken an unparsable line, in a game that
\* has counted a block and whose baseline is not the initial one
C13_Witness ==
    /\ state = "PLAYING" /\ pc = "removal"
    /\ first_read.got /\ ~first_read.parsed
    /\ blocks_removed > 0 /\ last_weight # 0

\* ---------------------------------------------------------------------- C14
\* C14: every step in which read_weight parses a line leaves last_weight at
\* the parsed value, be it the read of reset_game or of either detector.
C14_ParsedValueIsStored ==
    [][((CollapseStep \/ RemovalStep \/ (ClickStep /\ state = "PREGAME"))
            /\ ReadsSample)
        => last_weight' = ParseLine(Head(buf)).val]_vars

\* ---------------------------------------------------------------------- C15
\* C15: a submit whose insert fails leaves the phase PostGame and the run
\* state as it was, and handle_events goes on with that outcome in hand, so
\* that the same score can be submitted again.
C15_FailedInsertKeepsTheGame ==
    [][(SubmitStep /\ state = "POSTGAME" /\ leaderboard' = leaderboard)
        => (UNCHANGED game /\ pc' = "events")]_vars

\* ---------------------------------------------------------------------- C16
\* C16: no fault of the sensor or of the leaderboard ends run(): it is never
\* left by an exception, and it has returned only after a quit request.
C16_OnlyQuitEndsTheLoop ==
    /\ pc # "crashed"
    /\ pc = "exited" => ~running

\* ---------------------------------------------------------------------- C17
\* C17: once handle_events has seen the quit request, run() reads no sensor
\* line, updates no run state and writes no score on its way out.
C17_NoWorkAfterQuit ==
    [][(~running /\ pc' # pc)
        => UNCHANGED <<game, last_weight, buf, leaderboard>>]_vars

\* ---------------------------------------------------------------------- C18
\* C18: a tick makes at most one event, tested as collapse, removal, timeout:
\* blocks_removed rises only in update()'s removal test and by 1; a tick that
\* detects a collapse counts no block; one block short of the win a sample
\* more than COLLAPSE_THRESHOLD above the previous weight ends the game
\* without counting a block; and the winning block is counted even when the
\* time has run out in the same tick.
C18_OneEventPerTick ==
    [][/\ blocks_removed' > blocks_removed
            => (RemovalStep /\ blocks_removed' = blocks_removed + 1)
       /\ (CollapseStep /\ state' = "POSTGAME")
            => blocks_removed' = blocks_removed
       /\ ((CollapseStep \/ RemovalStep) /\ ReadsSample
             /\ blocks_removed = BLOCKS_TO_WIN - 1
             /\ Delta > COLLAPSE_THRESHOLD)
            => (state' = "POSTGAME" /\ blocks_removed' = BLOCKS_TO_WIN - 1)
       /\ (RemovalStep /\ ReadsSample /\ Medium(Delta)
             /\ blocks_removed = BLOCKS_TO_WIN - 1 /\ time_remaining <= 0)
            => (state' = "POSTGAME" /\ blocks_removed' = BLOCKS_TO_WIN)]_vars

\* ---------------------------------------------------------------------- C19
\* the step handles a key press and goes on to the next event
KeyStep ==
    /\ pc = "events" /\ events # <<>> /\ Head(events).type = "KEYDOWN"
    /\ events' = Tail(events)

\* the step is update(), called outside Playing
IdleUpdateStep == pc = "update" /\ pc' # pc /\ state # "PLAYING"

\* C19: update() in PreGame or PostGame changes nothing of the run state, the
\* baseline or the phase and takes no line off the link; a key press in
\* PreGame or Playing changes nothing; in PostGame a key other than RETURN
\* changes only team_name; no step taken in PostGame changes blocks_removed,
\* time_remaining, tower_collapsed or the baseline; so every row inserted
\* carries the score of the moment the game ended.
C19_FrozenOutsidePlaying ==
    [][/\ IdleUpdateStep => UNCHANGED <<game, last_weight, buf, leaderboard>>
       /\ (KeyStep /\ state # "POSTGAME")
            => UNCHANGED <<game, last_weight, buf, leaderboard>>
       /\ (KeyStep /\ state = "POSTGAME" /\ Head(events) # KeyReturn)
            => UNCHANGED <<state, blocks_removed, start_time, time_remaining,
                           tower_collapsed, last_weight, buf, leaderboard>>
       /\ state = "POSTGAME"
            => UNCHANGED <<blocks_removed, time_remaining, tower_collapsed,
                           last_weight>>
       /\ leaderboard' # leaderboard
            => leaderboard'[Len(leaderboard')].total_score
                 = calculate_score(time_remaining, blocks_removed)]_vars

\* a named team's score is on the board as it stood when the game ended,
\* though the clock has moved on since
C19_Witness ==
    /\ state = "PREGAME"
    /\ Len(leaderboard) = 1
    /\ leaderboard[1].team_name # <<>>
    /\ leaderboard[1].blocks_removed > 0
    /\ leaderboard[1].time_remaining
         > GAME_DURATION * ClockHz - (now - start_time)
    /\ leaderboard[1].total_score
         = calculate_score(time_remaining, blocks_removed)

\* ---------------------------------------------------------------------- C20
\* C20: the step from PreGame to Playing leaves the baseline at the weight
\* now on the sensor, the one of the newest line queued, and leaves no queued
\* line of another weight behind to be compared with it in the new game.
C20_StartTakesCurrentWeight ==
    [][(ClickStep /\ state = "PREGAME" /\ buf # <<>>
          /\ \A i \in 1..Len(buf) : ParseLine(buf[i]).ok)
        => /\ state' = "PLAYING"
           /\ last_weight' = ParseLine(buf[Len(buf)]).val
           /\ \A i \in 1..Len(buf') :
                ParseLine(buf'[i]).val = last_weight']_vars

====
